---- MODULE Spec2Model ----
(***************************************************************************)
(* Model of the decoder service: the decoding engine of server/routes.ts   *)
(* (decryptDecimal, decryptHex, decryptBase64, decryptCaesar, decryptROT13, *)
(* decryptURL, detectEncryptionType, performDecryption), the HTTP handlers  *)
(* registered by registerRoutes, and the in-memory history store           *)
(* MemStorage of server/storage.ts.                                         *)
(*                                                                         *)
(* A JavaScript string is a sequence of UTF-16 code units, modelled as a   *)
(* sequence of naturals in 0..65535.  A JavaScript number is a record      *)
(* with a kind: an integer below 2^30 in magnitude with its value, a       *)
(* larger integer-valued double with its sign, significand and exponent,   *)
(* an infinity, NaN, or undefined.                                         *)
(***************************************************************************)
EXTENDS Integers, Sequences, FiniteSets, TLC

\* ------------------------------------------------------------------ bounds

\* Longest input text of the engine specification.
MaxLen == 4
\* Most history records the server specification stores.
MaxSessions == 2
\* Last millisecond the server's clock reaches.
MaxClock == 2
\* Most requests the server has at a time.
MaxRequests == 2
\* The records that the decodes of the page make at most: one more than the
\* history query is answered with.
MaxHistory == 11

\* ------------------------------------------------- JavaScript number values

Num(n) == [kind |-> "num", val |-> n]
NaN == [kind |-> "nan", val |-> 0]
Undefined == [kind |-> "undef", val |-> 0]
\* A double of magnitude 2^30 or more that holds an integer: mant is its
\* significand in binary, most significant digit first and no leading zero,
\* of at most 53 digits (exactly 53 when exp > 0); the number is
\* (-1 if neg) * mant * 2^exp.
Big(neg, mant, exp) ==
    [kind |-> "big", val |-> 0, neg |-> neg, mant |-> mant, exp |-> exp]
Infinity(neg) == [kind |-> "inf", val |-> 0, neg |-> neg]

\* JavaScript's % : the remainder takes the sign of the dividend.
JsRem(a, b) == IF a >= 0 THEN a % b ELSE -((-a) % b)

RECURSIVE Pow2(_)
Pow2(k) == IF k = 0 THEN 1 ELSE 2 * Pow2(k - 1)

RECURSIVE PowMod(_, _, _)
\* b^e modulo m
PowMod(b, e, m) ==
    IF e = 0 THEN 1 % m
    ELSE IF e % 2 = 0 THEN LET h == PowMod(b, e \div 2, m) IN (h * h) % m
    ELSE (b * PowMod(b, e - 1, m)) % m

\* The largest element of a non-empty finite set of integers.
Greatest(set) == CHOOSE m \in set : \A x \in set : x <= m

RECURSIVE BitLen(_)
\* The number of binary digits of a natural number.
BitLen(n) == IF n = 0 THEN 0 ELSE 1 + BitLen(n \div 2)

RECURSIVE BitsValue(_, _)
\* The number written by the first n binary digits of b (n at most 30).
BitsValue(b, n) == IF n = 0 THEN 0 ELSE 2 * BitsValue(b, n - 1) + b[n]

RECURSIVE BitsMod(_, _, _, _)
\* The number written by the binary digits lo..hi of b, modulo m.
BitsMod(b, lo, hi, m) ==
    IF lo > hi THEN 0
    ELSE IF lo = hi THEN b[lo] % m
    ELSE LET mid == (lo + hi) \div 2
         IN  (BitsMod(b, lo, mid, m) * PowMod(2, hi - mid, m)
                + BitsMod(b, mid + 1, hi, m)) % m

\* The n low binary digits of a natural number, most significant first.
LowBits(x, n) == [i \in 1..n |-> (x \div Pow2(n - i)) % 2]

\* The binary digits of a natural number below 2^31, most significant first.
BitsOf(x) == LowBits(x, BitLen(x))

\* The binary digits b, most significant first, without leading zeros.
Significant(b) ==
    LET ones == {i \in 1..Len(b) : b[i] = 1}
    IN  IF ones = {} THEN <<>>
        ELSE SubSeq(b, Greatest({i \in ones : \A j \in ones : i <= j}), Len(b))

\* The binary digits of b + 1.
Increment(b) ==
    LET zeros == {i \in 1..Len(b) : b[i] = 0}
    IN  IF zeros = {} THEN <<1>> \o [i \in 1..Len(b) |-> 0]
        ELSE LET j == Greatest(zeros)
             IN  [i \in 1..Len(b) |->
                    IF i < j THEN b[i] ELSE IF i = j THEN 1 ELSE 0]

\* The binary digits of b - 1, b having a one among its digits.
Decrement(b) ==
    LET j == Greatest({i \in 1..Len(b) : b[i] = 1})
    IN  Significant([i \in 1..Len(b) |->
                       IF i < j THEN b[i] ELSE IF i = j THEN 0 ELSE 1])

\* The double nearest to the integer of sign neg and binary digits b (most
\* significant first, no leading zero): 53 digits are kept, a tie goes to
\* the even significand, and 2^1024 or more is an infinity.
ToNumber(neg, b) ==
    LET len == Len(b)
    IN  IF len <= 30
        THEN Num((IF neg THEN -1 ELSE 1) * BitsValue(b, len))
        ELSE IF len <= 53 THEN Big(neg, b, 0)
        ELSE LET kept == SubSeq(b, 1, 53)
                 sticky == \E i \in 55..len : b[i] = 1
                 up == b[54] = 1 /\ (sticky \/ kept[53] = 1)
                 rounded == IF up THEN Increment(kept) ELSE kept
                 exp == len - 53 + (Len(rounded) - 53)
             IN  IF exp + 53 > 1024 THEN Infinity(neg)
                 ELSE Big(neg, SubSeq(rounded, 1, 53), exp)

\* -x
Negate(x) ==
    IF x.kind = "num" THEN Num(-x.val)
    ELSE IF x.kind = "big" THEN Big(~x.neg, x.mant, x.exp)
    ELSE IF x.kind = "inf" THEN Infinity(~x.neg)
    ELSE NaN

\* x + k for a number x and an integer k below 2^16 in magnitude: the sum
\* rounded to a double.  A double of 2^70 or more is left as it is, k being
\* less than a quarter of the distance to its neighbours.  Below that the
\* sum is made on the integer's binary digits, the 30 low ones as a number
\* and the others above them.
NumAdd(x, k) ==
    IF x.kind = "num"
    THEN LET sum == x.val + k
         IN  IF -1073741824 < sum /\ sum < 1073741824 THEN Num(sum)
             ELSE ToNumber(sum < 0, BitsOf(IF sum < 0 THEN -sum ELSE sum))
    ELSE IF x.kind = "big"
    THEN IF x.exp >= 18 THEN x
         ELSE LET bits == x.mant \o [i \in 1..x.exp |-> 0]
                  n == Len(bits)
                  high == SubSeq(bits, 1, n - 30)
                  low == BitsValue(SubSeq(bits, n - 29, n), 30)
                          + (IF x.neg THEN -k ELSE k)
                  sum == IF low < 0
                         THEN Decrement(high) \o LowBits(low + Pow2(30), 30)
                         ELSE IF low >= Pow2(30)
                         THEN Increment(high) \o LowBits(low - Pow2(30), 30)
                         ELSE high \o LowBits(low, 30)
              IN  ToNumber(x.neg, Significant(sum))
    ELSE IF x.kind = "inf" THEN x
    ELSE NaN

\* x % m for a number x and a positive integer m: the remainder takes the
\* sign of x, and an infinity has none.
NumRem(x, m) ==
    IF x.kind = "num" THEN Num(JsRem(x.val, m))
    ELSE IF x.kind = "big"
    THEN LET r == (BitsMod(x.mant, 1, Len(x.mant), m) * PowMod(2, x.exp, m)) % m
         IN  Num(IF x.neg THEN -r ELSE r)
    ELSE NaN

\* ----------------------------------------------------------- character sets

Backslash == 92
Percent == 37
EqualsSign == 61
ReplacementChar == 65533

Digits == 48..57
UpperLetters == 65..90
LowerLetters == 97..122
Letters == UpperLetters \cup LowerLetters
HexDigits == Digits \cup (65..70) \cup (97..102)
\* The regular expression class \s, which is also what parseInt skips.
WhiteSpace == {9, 10, 11, 12, 13, 32, 160, 5760, 8232, 8233, 8239, 8287, 12288, 65279}
                \cup (8192..8202)

\* --------------------------------------------------------- string utilities

RECURSIVE Filter(_, _)
\* s.replace(/[set]/g, '') : the code units of s that are outside `drop`.
Filter(s, drop) ==
    IF s = <<>> THEN <<>>
    ELSE IF Head(s) \in drop THEN Filter(Tail(s), drop)
    ELSE <<Head(s)>> \o Filter(Tail(s), drop)

AllIn(s, set) == \A i \in 1..Len(s) : s[i] \in set

\* String.prototype.split with a one-character separator: the fragments of
\* s between the occurrences of sep.
Split(s, sep) ==
    LET at == {i \in 1..Len(s) : s[i] = sep}
        \* the k-th occurrence of sep; 0 before the first, Len(s) + 1 after the last
        nth(k) == IF k = 0 THEN 0
                  ELSE IF k > Cardinality(at) THEN Len(s) + 1
                  ELSE CHOOSE i \in at : Cardinality({j \in at : j < i}) = k - 1
    IN  [k \in 1..(Cardinality(at) + 1) |-> SubSeq(s, nth(k - 1) + 1, nth(k) - 1)]

\* Array.prototype.filter(Boolean) on strings: the empty string is falsy.
FilterBoolean(frags) == SelectSeq(frags, LAMBDA f : f # <<>>)

\* ------------------------------------------------------------------ parseInt

\* The value of a digit character in a radix up to 36, or -1.
DigitValue(c) ==
    IF c \in Digits THEN c - 48
    ELSE IF c \in UpperLetters THEN c - 65 + 10
    ELSE IF c \in LowerLetters THEN c - 97 + 10
    ELSE -1

IsRadixDigit(c, radix) == DigitValue(c) >= 0 /\ DigitValue(c) < radix

\* s without the characters of `skip` it starts with.
SkipLeading(s, skip) ==
    LET others == {i \in 1..Len(s) : s[i] \notin skip}
    IN  IF others = {} THEN <<>>
        ELSE SubSeq(s, Greatest({i \in others : \A j \in others : i <= j}), Len(s))

SkipWhite(s) == SkipLeading(s, WhiteSpace)

\* Length of the longest prefix of s made of digits of the radix.
DigitPrefixLen(s, radix) ==
    LET others == {i \in 1..Len(s) : ~IsRadixDigit(s[i], radix)}
    IN  IF others = {} THEN Len(s)
        ELSE Greatest({i \in others : \A j \in others : i <= j}) - 1

\* A natural number in base 1024 is the sequence of its digits, least
\* significant first and no leading zero.
NatLimbs(v) ==
    IF v = 0 THEN <<>>
    ELSE IF v < 1024 THEN <<v>>
    ELSE IF v < 1048576 THEN <<v % 1024, v \div 1024>>
    ELSE <<v % 1024, (v \div 1024) % 1024, v \div 1048576>>

\* a + b in base 1024: a carry comes into digit i when the nearest digit
\* below it whose sum is not 1023 has a sum of 1024 or more.
LimbsAdd(a, b) ==
    LET n == (IF Len(a) > Len(b) THEN Len(a) ELSE Len(b)) + 1
        x == SubSeq([i \in 1..n |-> (IF i <= Len(a) THEN a[i] ELSE 0)
                                      + (IF i <= Len(b) THEN b[i] ELSE 0)], 1, n)
        carry(i) == LET open == {j \in 1..(i - 1) : x[j] # 1023}
                    IN  open # {} /\ x[Greatest(open)] >= 1024
        sum == SubSeq([i \in 1..n |-> (x[i] + (IF carry(i) THEN 1 ELSE 0)) % 1024],
                      1, n)
    IN  SubSeq(sum, 1, Greatest({0} \cup {i \in 1..n : sum[i] # 0}))

RECURSIVE SumOf(_, _, _)
\* f[lo] + ... + f[hi]
SumOf(f, lo, hi) ==
    IF lo > hi THEN 0
    ELSE IF lo = hi THEN f[lo]
    ELSE LET mid == (lo + hi) \div 2
         IN  SumOf(f, lo, mid) + SumOf(f, mid + 1, hi)

\* a * b in base 1024: the sums of the columns of the long multiplication,
\* each below 2^31, and then their digits added up.
LimbsTimes(a, b) ==
    IF a = <<>> \/ b = <<>> THEN <<>>
    ELSE LET n == Len(a) + Len(b) - 1
             col == SubSeq([k \in 1..n |->
                              SumOf([i \in 1..Len(a) |->
                                        IF k + 1 - i \in 1..Len(b)
                                        THEN a[i] * b[k + 1 - i] ELSE 0],
                                    1, Len(a))], 1, n)
         IN  LimbsAdd(LimbsAdd([k \in 1..n |-> col[k] % 1024],
                               <<0>> \o [k \in 1..n |-> (col[k] \div 1024) % 1024]),
                      <<0, 0>> \o [k \in 1..n |-> col[k] \div 1048576])

RECURSIVE PowLimbs(_, _)
\* radix^k in base 1024
PowLimbs(radix, k) ==
    IF k = 0 THEN <<1>>
    ELSE IF k % 2 = 0
    THEN LET h == PowLimbs(radix, k \div 2) IN LimbsTimes(h, h)
    ELSE LimbsTimes(PowLimbs(radix, k - 1), <<radix>>)

RECURSIVE DigitsLimbs(_, _, _, _)
\* The integer written by the characters lo..hi of s in the radix, in base
\* 1024: the left half times the radix to the length of the right half,
\* plus the right half.
DigitsLimbs(s, lo, hi, radix) ==
    IF lo > hi THEN <<>>
    ELSE IF lo = hi THEN NatLimbs(DigitValue(s[lo]))
    ELSE LET mid == (lo + hi) \div 2
         IN  LimbsAdd(LimbsTimes(DigitsLimbs(s, lo, mid, radix),
                                 PowLimbs(radix, hi - mid)),
                      DigitsLimbs(s, mid + 1, hi, radix))

\* The binary digits of a number in base 1024, most significant first.
LimbsBits(l) ==
    LET len == IF l = <<>> THEN 0 ELSE 10 * (Len(l) - 1) + BitLen(l[Len(l)])
    IN  [i \in 1..len |->
            (l[((len - i) \div 10) + 1] \div Pow2((len - i) % 10)) % 2]

RECURSIVE ShortDigitsValue(_, _, _)
\* The integer written by the first n characters of s in the radix, for n
\* at most 7.
ShortDigitsValue(s, n, radix) ==
    IF n = 0 THEN 0
    ELSE ShortDigitsValue(s, n - 1, radix) * radix + DigitValue(s[n])

\* The Number written by the first n characters of s in the radix (10 or
\* 16): the double nearest to the integer.  An integer of at most 7 digits
\* is below 2^30 and is the Number itself; one of more than 309 decimal or
\* 256 hexadecimal digits is 2^1024 or more, an infinity.
DigitsValue(s, n, radix) ==
    LET z == SkipLeading(SubSeq(s, 1, n), {48})
    IN  IF Len(z) <= 7 THEN Num(ShortDigitsValue(z, Len(z), radix))
        ELSE IF Len(z) > (IF radix = 16 THEN 256 ELSE 309) THEN Infinity(FALSE)
        ELSE ToNumber(FALSE, LimbsBits(DigitsLimbs(z, 1, Len(z), radix)))

\* -x when neg, and x otherwise
Signed(neg, x) == IF neg THEN Negate(x) ELSE x

HasHexPrefix(s) == Len(s) >= 2 /\ s[1] = 48 /\ s[2] \in {88, 120}

\* parseInt(s, radix) for radix 0 (absent), 10 or 16 (ECMA-262 19.2.5).
ParseInt(s, radix) ==
    LET t == SkipWhite(s)
        neg == t # <<>> /\ Head(t) = 45
        u == IF t # <<>> /\ Head(t) \in {43, 45} THEN Tail(t) ELSE t
        strip == radix \in {0, 16} /\ HasHexPrefix(u)
        r == IF strip THEN 16 ELSE IF radix = 0 THEN 10 ELSE radix
        v == IF strip THEN SubSeq(u, 3, Len(u)) ELSE u
        n == DigitPrefixLen(v, r)
    IN  IF n = 0 THEN NaN ELSE Signed(neg, DigitsValue(v, n, r))

\* String.fromCharCode of one number: ToUint16, which is 0 for NaN and the
\* infinities.
FromCharCode(x) ==
    IF x.kind = "num" THEN x.val % 65536
    ELSE IF x.kind = "big"
    THEN IF x.exp >= 16 THEN 0
         ELSE LET n == Len(x.mant)
                  m == BitsValue(SubSeq(x.mant, n - 15 + x.exp, n), 16 - x.exp)
                         * Pow2(x.exp)
              IN  IF x.neg THEN (65536 - m) % 65536 ELSE m
    ELSE 0

\* ------------------------------------------------------- decoder outcomes

\* A decoder returns a string or throws an Error.
Returned(s) == [ok |-> TRUE, decoded |-> s]
Thrown == [ok |-> FALSE, decoded |-> <<>>]

\* --------------------------------------------------------------- UTF-8

IsCont(bytes, i) == i <= Len(bytes) /\ bytes[i] \in 128..191

\* The second byte a lead byte of a 3- or 4-byte sequence allows
\* (no overlong forms, no surrogates, nothing above U+10FFFF).
SecondByteRange(lead) ==
    IF lead = 224 THEN 160..191
    ELSE IF lead = 237 THEN 128..159
    ELSE IF lead = 240 THEN 144..191
    ELSE IF lead = 244 THEN 128..143
    ELSE 128..191

\* UTF-16 code units of a code point.
Utf16Encode(cp) ==
    IF cp < 65536 THEN <<cp>>
    ELSE <<55296 + ((cp - 65536) \div 1024), 56320 + ((cp - 65536) % 1024)>>

Malformed(n) == [ok |-> FALSE, units |-> <<ReplacementChar>>, used |-> n]
WellFormed(cp, n) == [ok |-> TRUE, units |-> Utf16Encode(cp), used |-> n]

\* Decodes the sequence that starts bytes (non-empty): the code units it
\* yields and the bytes it uses.  An ill-formed sequence yields U+FFFD and
\* uses its maximal well-formed prefix (at least one byte).
Utf8Step(bytes) ==
    LET b == bytes[1]
        snd == Len(bytes) >= 2 /\ bytes[2] \in SecondByteRange(b)
    IN  IF b < 128 THEN WellFormed(b, 1)
        ELSE IF b \in 194..223 THEN
            IF IsCont(bytes, 2)
            THEN WellFormed((b - 192) * 64 + (bytes[2] - 128), 2)
            ELSE Malformed(1)
        ELSE IF b \in 224..239 THEN
            IF ~snd THEN Malformed(1)
            ELSE IF ~IsCont(bytes, 3) THEN Malformed(2)
            ELSE WellFormed((b - 224) * 4096 + (bytes[2] - 128) * 64
                             + (bytes[3] - 128), 3)
        ELSE IF b \in 240..244 THEN
            IF ~snd THEN Malformed(1)
            ELSE IF ~IsCont(bytes, 3) THEN Malformed(2)
            ELSE IF ~IsCont(bytes, 4) THEN Malformed(3)
            ELSE WellFormed((b - 240) * 262144 + (bytes[2] - 128) * 4096
                             + (bytes[3] - 128) * 64 + (bytes[4] - 128), 4)
        ELSE Malformed(1)

RECURSIVE Utf8ToString(_)
\* Buffer.prototype.toString('utf8'): never throws, ill-formed input
\* becomes U+FFFD.
Utf8ToString(bytes) ==
    IF bytes = <<>> THEN <<>>
    ELSE LET st == Utf8Step(bytes)
         IN  st.units \o Utf8ToString(SubSeq(bytes, st.used + 1, Len(bytes)))

\* --------------------------------------------------------------- base64

\* The decoder reads a UTF-16 code unit by its low byte.
LowByte(c) == c % 256

\* The 6-bit value of a code unit whose low byte is a character of the
\* base64 or base64url alphabet, or -1.
Unbase64(c) ==
    LET b == LowByte(c)
    IN  IF b \in UpperLetters THEN b - 65
        ELSE IF b \in LowerLetters THEN b - 97 + 26
        ELSE IF b \in Digits THEN b - 48 + 52
        ELSE IF b \in {43, 45} THEN 62
        ELSE IF b \in {47, 95} THEN 63
        ELSE -1

RECURSIVE Base64Values(_)
\* The 6-bit values Node's decoder reads: it skips every code unit whose low
\* byte is outside the alphabet and stops at the first whose low byte is '='.
Base64Values(s) ==
    IF s = <<>> \/ LowByte(Head(s)) = EqualsSign THEN <<>>
    ELSE IF Unbase64(Head(s)) < 0 THEN Base64Values(Tail(s))
    ELSE <<Unbase64(Head(s))>> \o Base64Values(Tail(s))

RECURSIVE Base64Bytes(_)
\* Four values give three bytes; a last group of two or three values gives
\* one or two bytes, and a single left-over value gives none.
Base64Bytes(v) ==
    IF Len(v) < 2 THEN <<>>
    ELSE LET b1 == (v[1] * 4 + (v[2] \div 16)) % 256
             b2 == ((v[2] % 16) * 16 + (v[3] \div 4)) % 256
             b3 == ((v[3] % 4) * 64 + v[4]) % 256
         IN  IF Len(v) = 2 THEN <<b1>>
             ELSE IF Len(v) = 3 THEN <<b1, b2>>
             ELSE <<b1, b2, b3>> \o Base64Bytes(SubSeq(v, 5, Len(v)))

\* Buffer.from(text, 'base64')
BufferFromBase64(s) == Base64Bytes(Base64Values(s))

\* ---------------------------------------------------- decodeURIComponent

IsHexPair(s, k) == k + 1 <= Len(s) /\ s[k] \in HexDigits /\ s[k + 1] \in HexDigits
HexPairValue(s, k) == DigitValue(s[k]) * 16 + DigitValue(s[k + 1])

\* Number of bytes of the UTF-8 sequence a lead byte >= 128 announces
\* (the count of its leading 1 bits).
LeadingOnes(b) ==
    IF b < 192 THEN 1
    ELSE IF b < 224 THEN 2
    ELSE IF b < 240 THEN 3
    ELSE IF b < 248 THEN 4
    ELSE 5

\* Is s, from position k, a run of n escapes %XX ?
RECURSIVE IsEscapeRun(_, _, _)
IsEscapeRun(s, k, n) ==
    n = 0 \/ (k <= Len(s) /\ s[k] = Percent /\ IsHexPair(s, k + 1)
              /\ IsEscapeRun(s, k + 3, n - 1))

RECURSIVE EscapeRunBytes(_, _, _)
EscapeRunBytes(s, k, n) ==
    IF n = 0 THEN <<>>
    ELSE <<HexPairValue(s, k + 1)>> \o EscapeRunBytes(s, k + 3, n - 1)

RECURSIVE DecodeFrom(_, _)
\* decodeURIComponent from position k of s (ECMA-262 Decode with an empty
\* reserved set): a URIError is Thrown.
DecodeFrom(s, k) ==
    IF k > Len(s) THEN Returned(<<>>)
    ELSE IF s[k] # Percent THEN
        LET rest == DecodeFrom(s, k + 1)
        IN  IF rest.ok THEN Returned(<<s[k]>> \o rest.decoded) ELSE Thrown
    ELSE IF ~IsHexPair(s, k + 1) THEN Thrown
    ELSE
        LET b == HexPairValue(s, k + 1)
            n == IF b < 128 THEN 1 ELSE LeadingOnes(b)
        IN  IF b >= 128 /\ (n = 1 \/ n > 4) THEN Thrown
            ELSE IF ~IsEscapeRun(s, k, n) THEN Thrown
            ELSE
                LET st == Utf8Step(EscapeRunBytes(s, k, n))
                    rest == DecodeFrom(s, k + 3 * n)
                IN  IF ~st.ok \/ st.used # n THEN Thrown
                    ELSE IF rest.ok THEN Returned(st.units \o rest.decoded)
                    ELSE Thrown

DecodeURIComponent(s) == DecodeFrom(s, 1)

\* ------------------------------------------------------------- the decoders

\* decryptDecimal: nothing in its try block throws.
decryptDecimal(text) ==
    LET numbers == FilterBoolean(Split(text, Backslash))
    IN  Returned([i \in 1..Len(numbers) |-> FromCharCode(ParseInt(numbers[i], 0))])

RECURSIVE HexLoop(_, _)
\* The loop of decryptHex from index i (1-based): substr(i, 2) is shorter
\* than two characters at the end of an odd-length string.
HexLoop(cleanHex, i) ==
    IF i > Len(cleanHex) THEN <<>>
    ELSE LET pair == SubSeq(cleanHex, i, IF i + 1 <= Len(cleanHex) THEN i + 1 ELSE i)
         IN  <<FromCharCode(ParseInt(pair, 16))>> \o HexLoop(cleanHex, i + 2)

\* decryptHex: nothing in its try block throws.
decryptHex(text) ==
    LET cleanHex == Filter(text, WhiteSpace)
    IN  Returned(HexLoop(cleanHex, 1))

\* decryptBase64: Buffer.from and toString never throw.
decryptBase64(text) == Returned(Utf8ToString(BufferFromBase64(text)))

DefaultShift == 3

\* The replacement callback of decryptCaesar for one letter:
\* String.fromCharCode(((char.charCodeAt(0) - start - shift + 26) % 26) + start)
CaesarChar(char, shift) ==
    LET start == IF char <= 90 THEN 65 ELSE 97
    IN  FromCharCode(
            NumAdd(NumRem(NumAdd(NumAdd(Negate(shift), char - start), 26), 26),
                   start))

\* decryptCaesar(text, shift = 3): an undefined shift takes the default.
decryptCaesar(text, shift) ==
    LET sh == IF shift.kind = "undef" THEN Num(DefaultShift) ELSE shift
    IN  Returned([i \in 1..Len(text) |->
                    IF text[i] \in Letters THEN CaesarChar(text[i], sh) ELSE text[i]])

\* decryptROT13 calling decryptCaesar(text), which shifts by the default.
decryptROT13ByDefault(text) == decryptCaesar(text, Undefined)

decryptROT13(text) == decryptCaesar(text, Num(13))

\* decryptURL swallowing the URIError and returning the text as it is.
decryptURLLenient(text) ==
    IF DecodeURIComponent(text).ok THEN DecodeURIComponent(text) ELSE Returned(text)

\* decryptURL: decodeURIComponent throws URIError, rethrown as an Error.
decryptURL(text) == DecodeURIComponent(text)

\* ------------------------------------------------------------ the classifier

\* /^\\?\d+(\\?\d+)*$/.test(text.replace(/\\/g, '')): no backslash is left
\* to match, so the stripped text is one or more digits.
LooksDecimal(text) ==
    LET stripped == Filter(text, {Backslash})
    IN  stripped # <<>> /\ AllIn(stripped, Digits)

\* /^[0-9a-fA-F\s]+$/.test(text) && text.length % 2 === 0
LooksHex(text) ==
    text # <<>> /\ AllIn(text, HexDigits \cup WhiteSpace) /\ Len(text) % 2 = 0

RECURSIVE StripTrailing(_, _)
StripTrailing(s, c) ==
    IF s # <<>> /\ s[Len(s)] = c THEN StripTrailing(SubSeq(s, 1, Len(s) - 1), c) ELSE s

\* /^[A-Za-z0-9+/]+=*$/.test(text) && text.length % 4 === 0
LooksBase64(text) ==
    LET body == StripTrailing(text, EqualsSign)
    IN  body # <<>> /\ AllIn(body, Letters \cup Digits \cup {43, 47})
        /\ Len(text) % 4 = 0

\* text.includes('%') && /^[A-Za-z0-9%\-_.~]+$/.test(text)
LooksURL(text) ==
    /\ \E i \in 1..Len(text) : text[i] = Percent
    /\ AllIn(text, Letters \cup Digits \cup {Percent, 45, 95, 46, 126})

\* The classifier with the Hex rule tried before the Decimal rule.
detectHexFirst(text) ==
    IF LooksHex(text) THEN "hex"
    ELSE IF LooksDecimal(text) THEN "decimal"
    ELSE IF LooksBase64(text) THEN "base64"
    ELSE IF LooksURL(text) THEN "url"
    ELSE "caesar"

\* The classifier with the Base64 rule tried before the Hex rule.
detectBase64BeforeHex(text) ==
    IF LooksDecimal(text) THEN "decimal"
    ELSE IF LooksBase64(text) THEN "base64"
    ELSE IF LooksHex(text) THEN "hex"
    ELSE IF LooksURL(text) THEN "url"
    ELSE "caesar"

\* The classifier with ROT13 as the label of a text that no rule matches.
detectFallsBackToRot13(text) ==
    IF LooksDecimal(text) THEN "decimal"
    ELSE IF LooksHex(text) THEN "hex"
    ELSE IF LooksBase64(text) THEN "base64"
    ELSE IF LooksURL(text) THEN "url"
    ELSE "rot13"

detectEncryptionType(text) ==
    IF LooksDecimal(text) THEN "decimal"
    ELSE IF LooksHex(text) THEN "hex"
    ELSE IF LooksBase64(text) THEN "base64"
    ELSE IF LooksURL(text) THEN "url"
    ELSE "caesar"

\* ----------------------------------------------------------------- dispatch

EncryptionTypes == {"decimal", "hex", "base64", "caesar", "rot13", "url"}

\* performDecryption passing the request's shift to the ROT13 case.
performDecryptionShiftedRot13(text, type, caesarShift) ==
    LET detectedType == IF type = "auto" THEN detectEncryptionType(text) ELSE type
        r == CASE detectedType = "decimal" -> decryptDecimal(text)
               [] detectedType = "hex" -> decryptHex(text)
               [] detectedType = "base64" -> decryptBase64(text)
               [] detectedType = "caesar" -> decryptCaesar(text, caesarShift)
               [] detectedType = "rot13" ->
                      decryptCaesar(text, IF caesarShift.kind = "undef"
                                          THEN Num(13) ELSE caesarShift)
               [] detectedType = "url" -> decryptURL(text)
               [] OTHER -> Thrown
    IN  [ok |-> r.ok, decoded |-> r.decoded, detectedType |-> detectedType]

\* performDecryption returning the requested type in place of the detected.
performDecryptionReportsRequest(text, type, caesarShift) ==
    LET detectedType == IF type = "auto" THEN detectEncryptionType(text) ELSE type
        r == CASE detectedType = "decimal" -> decryptDecimal(text)
               [] detectedType = "hex" -> decryptHex(text)
               [] detectedType = "base64" -> decryptBase64(text)
               [] detectedType = "caesar" -> decryptCaesar(text, caesarShift)
               [] detectedType = "rot13" -> decryptROT13(text)
               [] detectedType = "url" -> decryptURL(text)
               [] OTHER -> Thrown
    IN  [ok |-> r.ok, decoded |-> r.decoded, detectedType |-> type]

\* {decoded, detectedType}, or a thrown Error
WithType(r, detectedType) ==
    [ok |-> r.ok, decoded |-> r.decoded, detectedType |-> detectedType]

\* The switch of performDecryption on the resolved kind.
DecodeAs(text, detectedType, caesarShift) ==
    WithType(CASE detectedType = "decimal" -> decryptDecimal(text)
               [] detectedType = "hex" -> decryptHex(text)
               [] detectedType = "base64" -> decryptBase64(text)
               [] detectedType = "caesar" -> decryptCaesar(text, caesarShift)
               [] detectedType = "rot13" -> decryptROT13(text)
               [] detectedType = "url" -> decryptURL(text)
               [] OTHER -> Thrown,
             detectedType)

\* performDecryption: {decoded, detectedType}, or a thrown Error.
performDecryption(text, type, caesarShift) ==
    DecodeAs(text,
             IF type = "auto" THEN detectEncryptionType(text) ELSE type,
             caesarShift)

\* =================================================================== state

VARIABLES
    text,       \* engine: the input text
    op,         \* engine: the operation applied to it, "input" before any
    shift,      \* engine: the shift argument of that operation
    out,        \* engine: the outcome of performDecryption / decryptCaesar
    out2,       \* engine: the outcome of the same call with another shift
    label,      \* engine: the result of detectEncryptionType, "" before
    sessions,   \* server: MemStorage.decryptionSessions, in insertion order
    uuids,      \* server: how many ids crypto.randomUUID() has returned
    now,        \* server: the clock new Date() reads, in milliseconds
    resp,       \* server: the response to the last request
    call,       \* server: the performDecryption call of the last request
    succeeded,  \* server: how many decrypt responses said success: true
    inflight,   \* the requests sent and not yet dealt with, by number
    cache,      \* client: the query cache's data for ['/api/sessions']
    mounted,    \* client: the Decoder component has mounted
    phase,      \* client: how far the history is since the clear button
    storeAtClear, \* client: the server's store when the button was pressed
    page        \* client: the state of the Decoder component (its useState values)

vars == <<text, op, shift, out, out2, label, sessions, uuids, now, resp, call,
          succeeded, inflight, cache, mounted, phase, storeAtClear,
          page>>
engineVars == <<text, op, shift, out, out2, label>>
clientVars == <<cache, mounted, phase, storeAtClear, page>>
serverVars == <<sessions, uuids, now, resp, call, succeeded, inflight,
                cache, mounted, phase, storeAtClear, page>>

\* ------------------------------------------------------- the engine's inputs

\* The characters of the input texts: '4' (a decimal and hex digit), 'C' and
\* 'a' (hex digits and letters of either case), 'w' (a letter that is no hex
\* digit), backslash, space, '%', '=', '+' and '-'.
Alphabet == {52, 67, 97, 119, Backslash, 32, Percent, EqualsSign, 43, 45}

Texts == UNION {[1..n -> Alphabet] : n \in 0..MaxLen}

\* The shifts given to the Caesar decoder: zero, the default, ROT13's, one
\* beyond a whole alphabet, and their negations.
Shifts == {-30, -13, -3, 0, 3, 13, 30}

\* The shifts of the repeated call: zero, ROT13's and one beyond an alphabet.
OtherShifts == {0, 13, 30}

Modes == EncryptionTypes \cup {"auto"}

NoOutcome == [ok |-> FALSE, decoded |-> <<>>, detectedType |-> ""]

NoResponse ==
    [route |-> "", success |-> FALSE, error |-> "", decoded |-> <<>>,
     detectedType |-> "", originalLength |-> 0, decodedLength |-> 0,
     sessionId |-> 0, limit |-> Undefined, sessions |-> <<>>]

NoCall == [made |-> FALSE, text |-> <<>>, type |-> "", caesarShift |-> Undefined]

\* A request slot: where the request is (idle, arrived, handled by the
\* server up to its await, responded), what it carries, whether the page's
\* client sent it and with which shift argument, and what the handler made.
NoRequest ==
    [pc |-> "idle", route |-> "", text |-> <<>>, encryptionType |-> "",
     caesarShift |-> Undefined, formShift |-> <<>>, upload |-> "none",
     queryLimit |-> <<>>, client |-> FALSE, asked |-> Undefined,
     call |-> NoCall, response |-> NoResponse]

\* No file chosen (selectedFile is null), and a chosen file of this content.
NoSelectedFile == [selected |-> FALSE, content |-> <<>>]
SelectedFile(content) == [selected |-> TRUE, content |-> content]

\* The state of the Decoder component when it mounts: the initial values of
\* its useState calls (decoder.tsx:38-43).
InitialPage ==
    [activeTab |-> "text", inputText |-> <<>>, autoDetect |-> TRUE,
     encryptionType |-> "auto", caesarShift |-> 3,
     selectedFile |-> NoSelectedFile]

\* The state of a server that has just started (storage.ts:16-19) and of a
\* page that has just mounted.
InitServer ==
    /\ sessions = <<>>
    /\ uuids = 0
    /\ now = 1
    /\ resp = NoResponse
    /\ call = NoCall
    /\ succeeded = 0
    /\ inflight = [n \in 1..MaxRequests |-> NoRequest]
    /\ cache = <<>>
    /\ mounted = FALSE
    /\ phase = "shown"
    /\ storeAtClear = <<>>
    /\ page = InitialPage

InitEngine ==
    /\ text \in Texts
    /\ op = "input"
    /\ shift = Undefined
    /\ out = NoOutcome
    /\ out2 = NoOutcome
    /\ label = ""
    /\ InitServer

\* performDecryption(text, type) without a shift.
Decode(type) ==
    /\ op = "input"
    /\ op' = "decode"
    /\ out' = performDecryption(text, type, Undefined)
    /\ label' = type
    /\ UNCHANGED <<text, shift, out2>>
    /\ UNCHANGED serverVars

\* performDecryption(text, 'caesar', sh)
DecodeCaesar(sh) ==
    /\ op = "input"
    /\ op' = "caesar"
    /\ shift' = Num(sh)
    /\ out' = performDecryption(text, "caesar", Num(sh))
    /\ label' = "caesar"
    /\ UNCHANGED <<text, out2>>
    /\ UNCHANGED serverVars

\* The Caesar decoder applied to its own output with the opposite shift.
DecodeBack ==
    /\ op = "caesar"
    /\ op' = "roundtrip"
    /\ out' = performDecryption(out.decoded, "caesar", Num(-shift.val))
    /\ UNCHANGED <<text, shift, out2, label>>
    /\ UNCHANGED serverVars

\* detectEncryptionType(text)
Detect ==
    /\ op = "input"
    /\ op' = "detect"
    /\ label' = detectEncryptionType(text)
    /\ UNCHANGED <<text, shift, out, out2>>
    /\ UNCHANGED serverVars

\* The call of Decode made again with a shift: performDecryption(text, type, sh)
DecodeAgain(sh) ==
    /\ op = "decode"
    /\ op' = "again"
    /\ shift' = Num(sh)
    /\ out2' = performDecryption(text, label, Num(sh))
    /\ UNCHANGED <<text, out, label>>
    /\ UNCHANGED serverVars

\* The ROT13 decoder applied to its own output.
Rot13Again ==
    /\ op = "decode"
    /\ label = "rot13"
    /\ op' = "rot13twice"
    /\ out' = performDecryption(out.decoded, "rot13", Undefined)
    /\ UNCHANGED <<text, shift, out2, label>>
    /\ UNCHANGED serverVars

NextEngine ==
    \/ \E type \in Modes : Decode(type)
    \/ \E sh \in Shifts : DecodeCaesar(sh)
    \/ DecodeBack
    \/ Detect
    \/ \E sh \in OtherShifts : DecodeAgain(sh)
    \/ Rot13Again

SpecEngine == InitEngine /\ [][NextEngine]_vars

\* ============================================================ history store

RECURSIVE InsertByCreatedAt(_, _)
\* Puts x behind every element of the sorted list that was created at the
\* same time or later: the place a stable sort gives it.
InsertByCreatedAt(sorted, x) ==
    IF sorted = <<>> THEN <<x>>
    ELSE IF Head(sorted).createdAt < x.createdAt THEN <<x>> \o sorted
    ELSE <<Head(sorted)>> \o InsertByCreatedAt(Tail(sorted), x)

RECURSIVE SortByCreatedAtDesc(_, _)
\* Array.prototype.sort with the comparator b.createdAt - a.createdAt: the
\* sort is stable, so records of equal createdAt keep their order.
SortByCreatedAtDesc(list, n) ==
    IF n = 0 THEN <<>>
    ELSE InsertByCreatedAt(SortByCreatedAtDesc(list, n - 1), list[n])

\* Array.prototype.slice(0, end)
Slice0(list, end) ==
    LET len == Len(list)
        k == IF end.kind = "undef" THEN len
             ELSE IF end.kind \in {"big", "inf"} THEN (IF end.neg THEN 0 ELSE len)
             ELSE IF end.kind # "num" THEN 0
             ELSE IF end.val < 0 THEN (IF len + end.val < 0 THEN 0 ELSE len + end.val)
             ELSE IF end.val > len THEN len
             ELSE end.val
    IN  SubSeq(list, 1, k)

DefaultLimit == 10

\* MemStorage.getDecryptionSessions(limit = 10) on the store's values in
\* insertion order.
getDecryptionSessions(store, limit) ==
    LET lim == IF limit.kind = "undef" THEN Num(DefaultLimit) ELSE limit
    IN  Slice0(SortByCreatedAtDesc(store, Len(store)), lim)

\* crypto.randomUUID(), given how many ids it has returned so far.  The
\* function is Node's and not the repository's: it is taken by its
\* contract, an id it has not returned before, and the ids are named by
\* their rank.
randomUUID(given) == given + 1

\* The record with an id that every record shares.
NewSessionSharedId(given, insertSession, time) ==
    [id |-> 1,
     originalText |-> insertSession.originalText,
     decodedText |-> insertSession.decodedText,
     encryptionType |-> insertSession.encryptionType,
     originalLength |-> insertSession.originalLength,
     decodedLength |-> insertSession.decodedLength,
     createdAt |-> time]

\* The record MemStorage.createDecryptionSession builds: the fields it is
\* given, the id from randomUUID() and the time of the clock.
NewSession(given, insertSession, time) ==
    [id |-> randomUUID(given),
     originalText |-> insertSession.originalText,
     decodedText |-> insertSession.decodedText,
     encryptionType |-> insertSession.encryptionType,
     originalLength |-> insertSession.originalLength,
     decodedLength |-> insertSession.decodedLength,
     createdAt |-> time]

\* Map.prototype.set(session.id, session) on the Map's values in insertion
\* order: a key the Map has keeps its place and takes the new value, a key
\* it has not is added behind the others.
MapSet(map, session) ==
    IF \E i \in 1..Len(map) : map[i].id = session.id
    THEN [i \in 1..Len(map) |->
            IF map[i].id = session.id THEN session ELSE map[i]]
    ELSE Append(map, session)

\* createDecryptionSession that returns its record and does not keep it.
createDecryptionSessionDropped(store, given, insertSession, time) == store

\* MemStorage.createDecryptionSession: the Map after
\* this.decryptionSessions.set(id, session)
createDecryptionSession(store, given, insertSession, time) ==
    MapSet(store, NewSession(given, insertSession, time))

\* ================================================================== handlers

\* A form field or JSON property that the request does not carry.
Absent == "<absent>"
\* A JSON value of another type than number in the place of caesarShift.
NonNumber == [kind |-> "str", val |-> 0]

\* decryptRequestSchema.parse(body): the validated data, or a ZodError.
\* z.number() takes every JSON number, the infinity that JSON.parse makes
\* of 1e999 too, and no value of another type.
decryptRequestSchema(body) ==
    IF /\ Len(body.text) >= 1
       /\ body.encryptionType \in Modes \cup {Absent}
       /\ body.caesarShift.kind \in {"num", "big", "inf", "undef"}
    THEN [ok |-> TRUE,
          text |-> body.text,
          encryptionType |-> IF body.encryptionType = Absent THEN "auto"
                             ELSE body.encryptionType,
          caesarShift |-> body.caesarShift]
    ELSE [ok |-> FALSE, text |-> <<>>, encryptionType |-> "",
          caesarShift |-> Undefined]

Failure(route, error) ==
    [NoResponse EXCEPT !.route = route, !.error = error]

\* What a handler leaves behind when it first returns to the event loop:
\* the store, the number of ids given out, the response it sends or is
\* about to send, and the call of performDecryption it made.
Handled(store, given, response, made) ==
    [sessions |-> store, uuids |-> given, resp |-> response, call |-> made]

\* The history record with the decoded length taken from the input.
InsertSessionInputLength(input, r) ==
    [originalText |-> input,
     decodedText |-> r.decoded,
     encryptionType |-> r.detectedType,
     originalLength |-> Len(input),
     decodedLength |-> Len(input)]

\* The history record the handlers pass to createDecryptionSession.
InsertSession(input, r) ==
    [originalText |-> input,
     decodedText |-> r.decoded,
     encryptionType |-> r.detectedType,
     originalLength |-> Len(input),
     decodedLength |-> Len(r.decoded)]

\* What follows the call of performDecryption in a decrypt handler, r being
\* what the call gave: on success the history record and the response, on
\* a thrown Error the catch block's 400.
SaveAndAnswer(route, input, made, store, given, time, r) ==
    IF r.ok
    THEN Handled(createDecryptionSession(store, given, InsertSession(input, r), time),
                 given + 1,
                 [NoResponse EXCEPT
                    !.route = route,
                    !.success = TRUE,
                    !.decoded = r.decoded,
                    !.detectedType = r.detectedType,
                    !.originalLength = Len(input),
                    !.decodedLength = Len(r.decoded),
                    !.sessionId = NewSession(given, InsertSession(input, r), time).id],
                 made)
    ELSE Handled(store, given,
                 Failure(route, IF r.detectedType \in EncryptionTypes
                                THEN "decode" ELSE "unsupported"),
                 made)

\* The part the two decrypt handlers share from the call of
\* performDecryption on: the history record and the response, or the
\* catch block's 400.  The handler runs to its await without interruption,
\* and the record is in the store by then.
DecryptAndSave(route, input, type, caesarShift, store, given, time) ==
    SaveAndAnswer(route, input,
                  [made |-> TRUE, text |-> input, type |-> type,
                   caesarShift |-> caesarShift],
                  store, given, time, performDecryption(input, type, caesarShift))

\* The handler of POST /api/decrypt
HandleDecrypt(body, store, given, time) ==
    LET validatedData == decryptRequestSchema(body)
    IN  IF validatedData.ok
        THEN DecryptAndSave("decrypt", validatedData.text,
                            validatedData.encryptionType,
                            validatedData.caesarShift, store, given, time)
        ELSE Handled(store, given, Failure("decrypt", "validation"), NoCall)

\* upload.single('file') and the handler of POST /api/decrypt-file.  A file
\* that multer's fileFilter or size limit rejects never reaches the
\* handler: the error goes to the application's error handler.  The fields
\* of a multipart form are strings; an absent field and an empty one are
\* both falsy.  file.content is the uploaded buffer read as UTF-8.
HandleDecryptFile(file, formType, formShift, store, given, time) ==
    IF file.present /\ ~file.accepted
    THEN Handled(store, given, Failure("decrypt-file", "upload"), NoCall)
    ELSE IF ~file.present
    THEN Handled(store, given, Failure("decrypt-file", "nofile"), NoCall)
    ELSE LET fileContent == file.content
             encryptionType == IF formType \in {Absent, ""} THEN "auto"
                               ELSE formType
             caesarShift == IF formShift = <<>> THEN Undefined
                            ELSE ParseInt(formShift, 0)
         IN  DecryptAndSave("decrypt-file", fileContent, encryptionType,
                            caesarShift, store, given, time)

\* The handler of GET /api/sessions with the query string's limit (<<>> when
\* absent).
HandleSessions(queryLimit, store, given) ==
    LET limit == IF queryLimit = <<>> THEN Num(DefaultLimit)
                 ELSE ParseInt(queryLimit, 0)
    IN  Handled(store, given,
                [NoResponse EXCEPT
                   !.route = "sessions",
                   !.success = TRUE,
                   !.limit = limit,
                   !.sessions = getDecryptionSessions(store, limit)],
                NoCall)

\* ------------------------------------------------------ requests in flight

\* POST /api/decrypt with a JSON body
TextRequest(body) ==
    [NoRequest EXCEPT !.pc = "arrived", !.route = "decrypt",
                      !.text = body.text,
                      !.encryptionType = body.encryptionType,
                      !.caesarShift = body.caesarShift]

\* POST /api/decrypt-file with a multipart form
FileRequest(file, formType, formShift) ==
    [NoRequest EXCEPT !.pc = "arrived", !.route = "decrypt-file",
                      !.text = file.content,
                      !.encryptionType = formType,
                      !.formShift = formShift,
                      !.upload = IF ~file.present THEN "absent"
                                 ELSE IF file.accepted THEN "file"
                                 ELSE "rejected"]

\* GET /api/sessions
SessionsRequest(queryLimit) ==
    [NoRequest EXCEPT !.pc = "arrived", !.route = "sessions",
                      !.queryLimit = queryLimit]

\* The route's handler applied to the request.
HandlerOf(req, store, given, time) ==
    CASE req.route = "decrypt" ->
            HandleDecrypt([text |-> req.text,
                           encryptionType |-> req.encryptionType,
                           caesarShift |-> req.caesarShift], store, given, time)
      [] req.route = "decrypt-file" ->
            HandleDecryptFile([present |-> req.upload # "absent",
                               accepted |-> req.upload # "rejected",
                               content |-> req.text],
                              req.encryptionType, req.formShift, store, given,
                              time)
      [] OTHER -> HandleSessions(req.queryLimit, store, given)

\* What the handler of request n leaves when it first returns to the event
\* loop, h being the handler's result.  On success that is at its await of
\* the storage call, with the record in the Map (or the list computed) and
\* the response not sent yet; a failure is answered in the same turn, by the
\* catch block or the early return.
RunTo(n, req, h) ==
    /\ sessions' = h.sessions
    /\ uuids' = h.uuids
    /\ call' = h.call
    /\ IF h.resp.success
       THEN /\ inflight' = [inflight EXCEPT ![n] =
                              [req EXCEPT !.pc = "handled", !.call = h.call,
                                          !.response = h.resp]]
            /\ resp' = resp
       ELSE /\ inflight' = [inflight EXCEPT ![n] =
                              IF req.client
                              THEN [req EXCEPT !.pc = "responded",
                                               !.call = h.call,
                                               !.response = h.resp]
                              ELSE NoRequest]
            /\ resp' = h.resp
    /\ succeeded' = succeeded

\* The handler of request n runs until it first returns to the event loop.
Run(n, req) == RunTo(n, req, HandlerOf(req, sessions, uuids, now))

\* The handler of request n goes on after its await and sends the response.
Respond(n) ==
    /\ inflight[n].pc = "handled"
    /\ resp' = inflight[n].response
    /\ succeeded' = IF inflight[n].route # "sessions" THEN succeeded + 1
                    ELSE succeeded
    /\ inflight' = [inflight EXCEPT ![n] =
                      IF inflight[n].client THEN [@ EXCEPT !.pc = "responded"]
                      ELSE NoRequest]
    /\ UNCHANGED <<sessions, uuids, now, call>>
    /\ UNCHANGED clientVars
    /\ UNCHANGED engineVars

\* Request n is the next to come: no request of a lower number is free.
NextRequest(n) ==
    /\ inflight[n].pc = "idle"
    /\ \A m \in 1..(n - 1) : inflight[m].pc # "idle"

\* The decrypt requests that have come and whose handler has not run yet.
Waiting ==
    {n \in 1..MaxRequests :
        inflight[n].pc = "arrived" /\ inflight[n].route # "sessions"}

\* The store has room for the record of one more request.
Room == Len(sessions) + Cardinality(Waiting) < MaxSessions

\* POST /api/decrypt arrives at a server with no other request and its
\* handler runs.
DecryptText(body) ==
    /\ NextRequest(1)
    /\ Len(sessions) < MaxSessions
    /\ Run(1, TextRequest(body))
    /\ UNCHANGED now
    /\ UNCHANGED clientVars
    /\ UNCHANGED engineVars

\* POST /api/decrypt-file arrives at a server with no other request and its
\* handler runs.
DecryptFile(file, formType, formShift) ==
    /\ NextRequest(1)
    /\ Len(sessions) < MaxSessions
    /\ Run(1, FileRequest(file, formType, formShift))
    /\ UNCHANGED now
    /\ UNCHANGED clientVars
    /\ UNCHANGED engineVars

\* GET /api/sessions arrives at a server with no other request and its
\* handler runs.
GetSessions(queryLimit) ==
    /\ NextRequest(1)
    /\ Run(1, SessionsRequest(queryLimit))
    /\ UNCHANGED now
    /\ UNCHANGED clientVars
    /\ UNCHANGED engineVars

\* A millisecond passes.
Tick ==
    /\ now < MaxClock
    /\ now' = now + 1
    /\ UNCHANGED <<sessions, uuids, resp, call, succeeded, inflight>>
    /\ UNCHANGED clientVars
    /\ UNCHANGED engineVars

\* ------------------------------------------------------- the server's inputs

\* The texts of the requests: "44", "4C", "wwww", "%41" and "Cw", which the
\* classifier labels decimal, hex, base64, url and caesar, "%4", which it
\* labels url and which fails to decode, and the empty text.
RequestTexts ==
    {<<52, 52>>, <<52, 67>>, <<119, 119, 119, 119>>, <<Percent, 52, 49>>,
     <<67, 119>>, <<Percent, 52>>, <<>>}
RequestTypes == {Absent, "xyz"} \cup Modes
\* caesarShift in a JSON body: absent, 0, 1e999 (an infinity once parsed),
\* or a string
BodyShifts == {Undefined, Num(0), Infinity(FALSE), NonNumber}
\* caesarShift in a form: absent, "0", "x", or "Infinity"
FormShifts == {<<>>, <<48>>, <<120>>, <<73, 110, 102, 105, 110, 105, 116, 121>>}

\* The bodies of POST /api/decrypt: every text with the mode auto, every
\* text but the empty one with the kind the classifier gives it, and "Cw"
\* with every mode and, as caesar, with every shift.
Bodies ==
    {[text |-> t, encryptionType |-> "auto", caesarShift |-> Undefined] :
        t \in RequestTexts}
      \cup {[text |-> t, encryptionType |-> detectEncryptionType(t),
              caesarShift |-> Undefined] : t \in RequestTexts \ {<<>>}}
      \cup {[text |-> <<67, 119>>, encryptionType |-> ty,
              caesarShift |-> Undefined] : ty \in RequestTypes}
      \cup {[text |-> <<67, 119>>, encryptionType |-> "caesar",
              caesarShift |-> sh] : sh \in BodyShifts}

NoFile == [present |-> FALSE, accepted |-> FALSE, content |-> <<>>]
\* A file of a name that the fileFilter does not allow.
RejectedFile == [present |-> TRUE, accepted |-> FALSE, content |-> <<Percent, 52, 49>>]
\* A file of an allowed name with the content.
File(content) == [present |-> TRUE, accepted |-> TRUE, content |-> content]

\* The forms of POST /api/decrypt-file: no file, a refused file, an empty
\* file and the file "%4" with no mode, an empty one and auto, and the
\* file "Cw" as caesar with every shift and with an unknown mode.
Forms ==
    {<<NoFile, Absent, <<>> >>, <<RejectedFile, Absent, <<>> >>,
     <<File(<<67, 119>>), "xyz", <<>> >>}
      \cup {<<File(t), ty, <<>> >> :
              t \in {<<>>, <<Percent, 52>>}, ty \in {Absent, "", "auto"}}
      \cup {<<File(<<67, 119>>), "caesar", sh>> : sh \in FormShifts}

\* limit in the query string: absent, or one digit
QueryLimits == {<<>>} \cup {<<48 + n>> : n \in 0..MaxSessions}

Init ==
    /\ InitServer
    /\ text = <<>>
    /\ op = "input"
    /\ shift = Undefined
    /\ out = NoOutcome
    /\ out2 = NoOutcome
    /\ label = ""

\* One request after the other: each is answered before the next comes.
Next ==
    \/ \E body \in Bodies : DecryptText(body)
    \/ \E form \in Forms : DecryptFile(form[1], form[2], form[3])
    \/ \E q \in QueryLimits : GetSessions(q)
    \/ Respond(1)
    \/ Tick

Spec == Init /\ [][Next]_vars

\* ======================================================= requests at a time

\* A request is read from its connection and waits for the event loop.
Arrive(n, req) ==
    /\ NextRequest(n)
    /\ Room
    /\ inflight' = [inflight EXCEPT ![n] = req]
    /\ UNCHANGED <<sessions, uuids, now, resp, call, succeeded>>
    /\ UNCHANGED clientVars
    /\ UNCHANGED engineVars

\* The handler of the waiting request n runs.
Handle(n) ==
    /\ inflight[n].pc = "arrived"
    /\ Run(n, inflight[n])
    /\ UNCHANGED now
    /\ UNCHANGED clientVars
    /\ UNCHANGED engineVars


\* The requests that come at once: "%4" with mode auto, which fails to
\* decode, "Cw" as caesar without a shift and with the shift 1e999, a file
\* "%4" as caesar, and the history query.
ConcurrentRequests ==
    {TextRequest([text |-> <<Percent, 52>>, encryptionType |-> "auto",
                  caesarShift |-> Undefined]),
     TextRequest([text |-> <<67, 119>>, encryptionType |-> "caesar",
                  caesarShift |-> Undefined]),
     TextRequest([text |-> <<67, 119>>, encryptionType |-> "caesar",
                  caesarShift |-> Infinity(FALSE)]),
     FileRequest(File(<<Percent, 52>>), "caesar", <<>>),
     SessionsRequest(<<>>)}

NextConcurrent ==
    \/ \E n \in 1..MaxRequests, req \in ConcurrentRequests : Arrive(n, req)
    \/ \E n \in 1..MaxRequests : Handle(n)
    \/ \E n \in 1..MaxRequests : Respond(n)
    \/ Tick

SpecConcurrent == Init /\ [][NextConcurrent]_vars

\* ================================================================ the client

RECURSIVE NaturalToString(_)
\* The decimal digits of a natural number.
NaturalToString(n) ==
    IF n < 10 THEN <<48 + n>>
    ELSE NaturalToString(n \div 10) \o <<48 + (n % 10)>>

\* Is a <= b, for two numbers in base 1024 ?
LimbsLeq(a, b) ==
    IF Len(a) # Len(b) THEN Len(a) < Len(b)
    ELSE LET differ == {i \in 1..Len(a) : a[i] # b[i]}
         IN  differ = {} \/ a[Greatest(differ)] < b[Greatest(differ)]

\* The number of the binary digits b (most significant first), in base 1024.
BitsLimbs(b) ==
    LET n == Len(b)
        count == (n + 9) \div 10
    IN  SubSeq([j \in 1..count |->
                  LET hi == n - 10 * (j - 1)
                      lo == IF hi - 9 < 1 THEN 1 ELSE hi - 9
                  IN  BitsValue(SubSeq(b, lo, hi), hi - lo + 1)], 1, count)

\* The integer that the decimal digits w write, times t, in base 1024.
Scaled(w, t) == LimbsTimes(DigitsLimbs(w, 1, Len(w), 10), t)

RECURSIVE LeadingDigits(_, _, _, _)
\* The first k decimal digits of the integer v, which has k digits before
\* those that t = 10^j stands for: each digit is the greatest that keeps
\* the number written so far, times t, at or below v.
LeadingDigits(v, t, k, w) ==
    IF Len(w) = k THEN w
    ELSE LeadingDigits(v, t, k, w \o <<48 + Greatest(
             {c \in 0..9 :
                 LimbsLeq(Scaled(w \o <<48 + c>>
                                   \o [i \in 1..(k - Len(w) - 1) |-> 48], t),
                          v)})>>)

\* The decimal digits w with the digits after the first k made zero.
Truncated(w, k) == [i \in 1..Len(w) |-> IF i <= k THEN w[i] ELSE 48]

\* Truncated(w, k) with one added to digit k: a digit more when all were 9.
RoundedUp(w, k) ==
    LET low == {i \in 1..k : w[i] # 57}
    IN  IF low = {} THEN <<49>> \o [i \in 1..Len(w) |-> 48]
        ELSE LET j == Greatest(low)
             IN  [i \in 1..Len(w) |->
                    IF i < j THEN w[i] ELSE IF i = j THEN w[i] + 1 ELSE 48]

\* The digits w without the zeros at their end.
StripTrailingZeros(w) ==
    SubSeq(w, 1, Greatest({0} \cup {i \in 1..Len(w) : w[i] # 48}))

\* Is x the double nearest to the integer that the digits c write, times t ?
RoundTrips(x, c, t) ==
    ToNumber(FALSE, LimbsBits(Scaled(c, t))) = Big(FALSE, x.mant, x.exp)

\* Of the digits lo and hi, which write the multiples of a power of ten
\* next below and above the integer v (times t), the one Number::toString
\* takes for the double x of value v: the one that x is the nearest double
\* to, of both the one nearer to v, and the even one when they are as near.
Nearer(x, v, t, lo, hi, last) ==
    IF ~RoundTrips(x, hi, t) THEN lo
    ELSE IF ~RoundTrips(x, lo, t) THEN hi
    ELSE IF LimbsAdd(v, v) = LimbsAdd(Scaled(lo, t), Scaled(hi, t))
    THEN (IF (lo[last] - 48) % 2 = 0 THEN lo ELSE hi)
    ELSE IF LimbsLeq(LimbsAdd(v, v), LimbsAdd(Scaled(lo, t), Scaled(hi, t)))
    THEN lo
    ELSE hi

\* The least length at which the first digits of w, as they are or with one
\* added to the last, write a number whose nearest double is x.
ShortestLength(x, t, w) ==
    CHOOSE i \in 1..Len(w) :
        /\ RoundTrips(x, Truncated(w, i), t) \/ RoundTrips(x, RoundedUp(w, i), t)
        /\ \A j \in 1..(i - 1) :
              ~(RoundTrips(x, Truncated(w, j), t) \/ RoundTrips(x, RoundedUp(w, j), t))

\* The digits taken at that length, and with them the number n of digits
\* of the integer part: p, or one more when rounding up added a digit.
DigitsAt(chosen, p, k) ==
    [digits |-> StripTrailingZeros(chosen), n |-> p + (Len(chosen) - k)]

ShortestFrom(x, v, t, w, p, least) ==
    DigitsAt(Nearer(x, v, t, Truncated(w, least), RoundedUp(w, least), least),
             p, Len(w))

\* The digits of the integer v of p decimal digits, the double x: at most
\* 17 of them are looked at, which always tell a double.
ShortestOf(x, v, p, k, t) ==
    ShortestFrom(x, v, t, LeadingDigits(v, t, k, <<>>), p,
                 ShortestLength(x, t, LeadingDigits(v, t, k, <<>>)))

\* The number of decimal digits of the integer v of the given number of
\* binary digits: p0 or one more, 30103/100000 being log 2 to five places.
DigitCount(v, p0) == IF LimbsLeq(PowLimbs(10, p0), v) THEN p0 + 1 ELSE p0

ShortestWith(x, v, p) ==
    ShortestOf(x, v, p, IF p < 17 THEN p ELSE 17,
               PowLimbs(10, IF p < 17 THEN 0 ELSE p - 17))

\* The decimal digits and the exponent that Number::toString takes for a
\* double x of 2^30 or more (ECMA-262 6.1.6.1.20): n is the number of
\* digits of x's integer part and digits the shortest run of digits, zeros
\* behind it left out, that stands for a number whose nearest double is x.
ShortestDigits(x) ==
    ShortestWith(x, BitsLimbs(x.mant \o [i \in 1..x.exp |-> 0]),
                 DigitCount(BitsLimbs(x.mant \o [i \in 1..x.exp |-> 0]),
                            ((Len(x.mant) + x.exp - 1) * 30103) \div 100000 + 1))

\* The digits s.digits and the count s.n as Number::toString writes them:
\* an integer of at most 21 digits is written out, a greater one with an
\* exponent after its first digit.
WriteDigits(s) ==
    IF s.n <= 21
    THEN s.digits \o [i \in 1..(s.n - Len(s.digits)) |-> 48]
    ELSE <<s.digits[1]>>
           \o (IF Len(s.digits) > 1
               THEN <<46>> \o SubSeq(s.digits, 2, Len(s.digits)) ELSE <<>>)
           \o <<101, 43>> \o NaturalToString(s.n - 1)

\* Number.prototype.toString()
NumberToString(x) ==
    IF x.kind = "num"
    THEN (IF x.val < 0 THEN <<45>> \o NaturalToString(-x.val)
          ELSE NaturalToString(x.val))
    ELSE IF x.kind = "big"
    THEN (IF x.neg THEN <<45>> ELSE <<>>) \o WriteDigits(ShortestDigits(x))
    ELSE IF x.kind = "inf"
    THEN (IF x.neg THEN <<45>> ELSE <<>>) \o <<73, 110, 102, 105, 110, 105, 116, 121>>
    ELSE <<78, 97, 78>>

\* if (caesarShift): undefined, 0 and NaN are falsy
Truthy(v) == (v.kind = "num" /\ v.val # 0) \/ v.kind \in {"big", "inf"}

\* The request getSessionHistory() sends: GET /api/sessions without a limit
FetchRequest == [SessionsRequest(<<>>) EXCEPT !.client = TRUE]

\* JSON.stringify of a property's value that is a number or undefined: an
\* undefined property is left out, and NaN and the infinities are written
\* as null.
JsonNumber(x) == IF x.kind \in {"nan", "inf"} THEN NonNumber ELSE x

\* decryptText(text, encryptionType, caesarShift) sends its request, the
\* body being the JSON of its three arguments.
ClientDecryptText(n, t, type, sh) ==
    /\ inflight[n].pc = "idle"
    /\ inflight' = [inflight EXCEPT ![n] =
                      [TextRequest([text |-> t, encryptionType |-> type,
                                    caesarShift |-> JsonNumber(sh)])
                          EXCEPT !.client = TRUE, !.asked = sh]]
    /\ UNCHANGED <<sessions, uuids, now, resp, call, succeeded>>
    /\ UNCHANGED clientVars
    /\ UNCHANGED engineVars

\* decryptFile(file, encryptionType, caesarShift) sends its request: the
\* form carries caesarShift only if (caesarShift).
ClientDecryptFile(n, t, type, sh) ==
    LET formShift == IF Truthy(sh) THEN NumberToString(sh) ELSE <<>>
    IN  /\ inflight[n].pc = "idle"
        /\ inflight' = [inflight EXCEPT ![n] =
                          [FileRequest([present |-> TRUE, accepted |-> TRUE,
                                        content |-> t], type, formShift)
                              EXCEPT !.client = TRUE, !.asked = sh]]
        /\ UNCHANGED <<sessions, uuids, now, resp, call, succeeded>>
        /\ UNCHANGED clientVars
        /\ UNCHANGED engineVars

\* ------------------------------------------------------------ the page

\* The page has one decrypt mutation pending at most (the decode button is
\* disabled meanwhile) and one fetch of its history query: the request of
\* the mutation is request 1, the fetch of the query request 2.  A fetch
\* that invalidateQueries cancels is not followed further: its handler
\* changes nothing on the server and the query drops its response.
MutationRequest == 1
QueryRequest == 2

\* isProcessing: a decrypt mutation of the page is pending, from mutate()
\* until its promise settles.
isProcessing == inflight[MutationRequest].pc # "idle"

\* The Decoder component mounts and its history query fetches:
\* getSessionHistory().
Mount ==
    /\ ~mounted
    /\ mounted' = TRUE
    /\ inflight' = [inflight EXCEPT ![QueryRequest] = FetchRequest]
    /\ UNCHANGED <<cache, phase, storeAtClear, page>>
    /\ UNCHANGED <<sessions, uuids, now, resp, call, succeeded>>
    /\ UNCHANGED engineVars

\* A setter of the page's state: it changes the page and nothing else.
SetPage(next) ==
    /\ mounted
    /\ page' = next
    /\ UNCHANGED <<cache, mounted, phase, storeAtClear>>
    /\ UNCHANGED <<sessions, uuids, now, resp, call, succeeded, inflight>>
    /\ UNCHANGED engineVars

\* The tab buttons: setActiveTab
setActiveTab(tab) == SetPage([page EXCEPT !.activeTab = tab])

\* The textarea's onChange: setInputText(e.target.value)
setInputText(t) == SetPage([page EXCEPT !.inputText = t])

\* The checkbox: setAutoDetect(!!checked)
setAutoDetect(checked) == SetPage([page EXCEPT !.autoDetect = checked])

\* The radio group, disabled while autoDetect is checked: setEncryptionType
setEncryptionType(type) ==
    /\ ~page.autoDetect
    /\ SetPage([page EXCEPT !.encryptionType = type])

\* A file is chosen or dropped: a file over 10 MB or of another extension
\* than .txt, .log, .dat is refused with a toast and the state stays.
handleFileSelect(file) ==
    SetPage(IF file.accepted
            THEN [page EXCEPT !.selectedFile = SelectedFile(file.content)]
            ELSE page)

\* The decode button, disabled while a mutation is pending, the text is
\* blank or no file is chosen, and handleDecrypt: the mutation calls
\* decryptText or decryptFile with the mode "auto" when autoDetect is
\* checked, and with the page's caesarShift when the chosen kind is caesar.
handleDecrypt ==
    LET type == IF page.autoDetect THEN "auto" ELSE page.encryptionType
        sh == IF page.encryptionType = "caesar" THEN Num(page.caesarShift)
              ELSE Undefined
    IN  /\ mounted
        /\ ~isProcessing
        /\ Len(sessions) < MaxHistory
        /\ IF page.activeTab = "text"
           THEN /\ ~AllIn(page.inputText, WhiteSpace)
                /\ ClientDecryptText(MutationRequest, page.inputText, type, sh)
           ELSE /\ page.selectedFile.selected
                /\ ClientDecryptFile(MutationRequest, page.selectedFile.content,
                                     type, sh)

\* The response to the pending mutation reaches the page.  onSuccess with
\* success: true invalidates the history query, which drops the fetch under
\* way and fetches again; a 400 goes to onError.
MutationSettles ==
    LET req == inflight[MutationRequest]
    IN  /\ req.pc = "responded"
        /\ IF req.response.success
           THEN /\ inflight' = [inflight EXCEPT ![MutationRequest] = NoRequest,
                                                ![QueryRequest] = FetchRequest]
                /\ phase' = IF phase = "cleared" THEN "decoded" ELSE phase
           ELSE /\ inflight' = [inflight EXCEPT ![MutationRequest] = NoRequest]
                /\ phase' = phase
        /\ UNCHANGED <<cache, mounted, storeAtClear, page>>
        /\ UNCHANGED <<sessions, uuids, now, resp, call, succeeded>>
        /\ UNCHANGED engineVars

\* The response to the query's fetch reaches the page: its list becomes the
\* data of the cache.  A fetch begun before the clear button was pressed
\* and answered after it brings the history back, and the clear is over.
QueryResolves ==
    LET req == inflight[QueryRequest]
    IN  /\ req.pc = "responded"
        /\ inflight' = [inflight EXCEPT ![QueryRequest] = NoRequest]
        /\ cache' = req.response.sessions
        /\ phase' = CASE phase = "cleared" -> "shown"
                      [] phase = "decoded" -> "refetched"
                      [] OTHER -> phase
        /\ storeAtClear' = IF phase = "cleared" THEN <<>> ELSE storeAtClear
        /\ UNCHANGED <<mounted, page>>
        /\ UNCHANGED <<sessions, uuids, now, resp, call, succeeded>>
        /\ UNCHANGED engineVars

\* The clear button with a request to the server that empties its store.
ClientClearHistoryOnServer ==
    /\ mounted
    /\ cache' = <<>>
    /\ sessions' = <<>>
    /\ phase' = "cleared"
    /\ storeAtClear' = sessions
    /\ UNCHANGED <<mounted, page>>
    /\ UNCHANGED <<uuids, now, resp, call, succeeded, inflight>>
    /\ UNCHANGED engineVars

\* The clear button: queryClient.setQueryData(['/api/sessions'], [])
ClientClearHistory ==
    /\ mounted
    /\ cache' = <<>>
    /\ phase' = "cleared"
    /\ storeAtClear' = sessions
    /\ UNCHANGED <<mounted, page>>
    /\ UNCHANGED <<sessions, uuids, now, resp, call, succeeded, inflight>>
    /\ UNCHANGED engineVars

\* What the user types: "%41", which decodes to "A" as a URL
PageTexts == {<<Percent, 52, 49>>}
\* The kind the user picks
PageTypes == {"url"}
\* The files the user chooses: "%4" in a .txt file, which fails to decode
\* as a URL, and a file of another extension
PageFiles ==
    {[accepted |-> TRUE, content |-> <<Percent, 52>>],
     [accepted |-> FALSE, content |-> <<Percent, 52>>]}

NextClient ==
    \/ Mount
    \/ \E tab \in {"text", "file"} : setActiveTab(tab)
    \/ \E t \in PageTexts : setInputText(t)
    \/ \E checked \in BOOLEAN : setAutoDetect(checked)
    \/ \E type \in PageTypes : setEncryptionType(type)
    \/ \E file \in PageFiles : handleFileSelect(file)
    \/ handleDecrypt
    \/ \E n \in {MutationRequest, QueryRequest} : Handle(n)
    \/ \E n \in {MutationRequest, QueryRequest} : Respond(n)
    \/ MutationSettles
    \/ QueryResolves
    \/ ClientClearHistory

SpecClient == Init /\ [][NextClient]_vars

\* ------------------------------------------- the client's functions called

\* The promise of decryptText or decryptFile settles: the caller has the
\* response, or the Error thrown for a 400.
ClientReturn(n) ==
    /\ inflight[n].pc = "responded"
    /\ inflight' = [inflight EXCEPT ![n] = NoRequest]
    /\ UNCHANGED <<sessions, uuids, now, resp, call, succeeded>>
    /\ UNCHANGED clientVars
    /\ UNCHANGED engineVars

\* The arguments decryptText and decryptFile are called with: "Cw" as
\* caesar with no shift, with 0, 3 and -3, and "%4" with mode auto, which
\* fails to decode.
ClientCalls ==
    {<<<<67, 119>>, "caesar", sh>> : sh \in {Undefined, Num(0), Num(3), Num(-3)}}
        \cup {<<<<Percent, 52>>, "auto", Undefined>>}

\* The functions of client/src/lib/decryption.ts with any caller, the calls
\* taking the requests in their order.
NextCalls ==
    \/ \E n \in 1..MaxRequests, c \in ClientCalls :
          NextRequest(n) /\ Room /\ ClientDecryptText(n, c[1], c[2], c[3])
    \/ \E n \in 1..MaxRequests, c \in ClientCalls :
          NextRequest(n) /\ Room /\ ClientDecryptFile(n, c[1], c[2], c[3])
    \/ \E n \in 1..MaxRequests : Handle(n)
    \/ \E n \in 1..MaxRequests : Respond(n)
    \/ \E n \in 1..MaxRequests : ClientReturn(n)

SpecCalls == Init /\ [][NextCalls]_vars

\* ==================================================================== claims

Min(a, b) == IF a < b THEN a ELSE b
Reverse(list) == [i \in 1..Len(list) |-> list[Len(list) + 1 - i]]

RECURSIVE Utf8Valid(_)
\* Is the byte sequence well-formed UTF-8 ?
Utf8Valid(bytes) ==
    bytes = <<>> \/ (LET st == Utf8Step(bytes)
                     IN  st.ok /\ Utf8Valid(SubSeq(bytes, st.used + 1, Len(bytes))))

\* The text with whitespace removed is a sequence of two-digit hex pairs.
WellFormedHex(t) ==
    LET clean == Filter(t, WhiteSpace)
    IN  Len(clean) % 2 = 0 /\ AllIn(clean, HexDigits)

\* The text is padded base64 of the standard alphabet that encodes UTF-8.
WellFormedBase64(t) ==
    LET body == StripTrailing(t, EqualsSign)
    IN  /\ Len(t) % 4 = 0
        /\ Len(t) - Len(body) <= 2
        /\ AllIn(body, Letters \cup Digits \cup {43, 47})
        /\ Utf8Valid(BufferFromBase64(t))

\* The non-empty fragments between the backslashes of the text.
Fragments(t) == FilterBoolean(Split(t, Backslash))
IsDecimalInteger(f) == f # <<>> /\ AllIn(f, Digits)

\* The letter of the same case at alphabet position (p - sh) mod 26.
ShiftedBack(c, sh) ==
    LET start == IF c \in UpperLetters THEN 65 ELSE 97
    IN  start + ((c - start - sh) % 26)

\* C1: decoding as Hex fails whenever the whitespace-stripped text has odd
\* length or holds a pair that is not two hexadecimal digits.
C1_HexRejectsMalformed ==
    (op = "decode" /\ label = "hex" /\ ~WellFormedHex(text)) => ~out.ok

\* C2: decoding as Base64 fails whenever the text holds a character outside
\* the base64 alphabet, is wrongly padded, or encodes bytes that are not
\* valid UTF-8.
C2_Base64RejectsMalformed ==
    (op = "decode" /\ label = "base64" /\ ~WellFormedBase64(text)) => ~out.ok

\* C3: decoding as Decimal fails if a non-empty fragment between backslashes
\* is not a non-negative base-10 integer, and a success has exactly one
\* character per fragment.
C3_DecimalRejectsNonIntegers ==
    (op = "decode" /\ label = "decimal") =>
        LET frags == Fragments(text)
            allIntegers == \A i \in 1..Len(frags) : IsDecimalInteger(frags[i])
        IN  /\ ~allIntegers => ~out.ok
            /\ out.ok => (allIntegers /\ Len(out.decoded) = Len(frags))

\* C4: for every integer shift the Caesar decoder succeeds, maps each letter
\* at position p to the letter of the same case at position (p - shift) mod
\* 26, and leaves every other character as it is.
C4_CaesarShiftsModulo26 ==
    op = "caesar" =>
        /\ out.ok
        /\ Len(out.decoded) = Len(text)
        /\ \A i \in 1..Len(text) :
              out.decoded[i] = IF text[i] \in Letters
                               THEN ShiftedBack(text[i], shift.val)
                               ELSE text[i]

\* C5: decoding with a shift and then with the opposite shift gives the
\* text back, for every integer shift.
C5_CaesarRoundTrip ==
    op = "roundtrip" => (out.ok /\ out.decoded = text)

\* C6: when the Decimal rule does not match, the classifier answers Hex
\* exactly when the text without its whitespace is an even-length sequence
\* of hexadecimal digits: whitespace does not count toward the parity.
\* (Stated for the texts that hold a character other than whitespace, where
\* "consists solely of hexadecimal digits" has one reading.)
C6_HexRuleIgnoresWhitespace ==
    (op = "detect" /\ ~LooksDecimal(text) /\ Filter(text, WhiteSpace) # <<>>) =>
        (label = "hex" <=> WellFormedHex(text))

\* C7: the classifier always answers one of Decimal, Hex, Base64, Url and
\* Caesar: the first of the rules Decimal, Hex, Base64, Url, in this order,
\* that matches the text, and Caesar when none does.
C7_ClassifierFirstMatch ==
    op = "detect" =>
        /\ label \in {"decimal", "hex", "base64", "url", "caesar"}
        /\ label = "decimal" <=> LooksDecimal(text)
        /\ label = "hex" <=> (~LooksDecimal(text) /\ LooksHex(text))
        /\ label = "base64" <=>
              (~LooksDecimal(text) /\ ~LooksHex(text) /\ LooksBase64(text))
        /\ label = "url" <=>
              (/\ ~LooksDecimal(text) /\ ~LooksHex(text)
               /\ ~LooksBase64(text) /\ LooksURL(text))
        /\ label = "caesar" <=>
              (/\ ~LooksDecimal(text) /\ ~LooksHex(text)
               /\ ~LooksBase64(text) /\ ~LooksURL(text))

\* A text that two rules match, classified by the earlier one.
C7_Witness ==
    /\ op = "detect"
    /\ LooksHex(text) /\ LooksBase64(text) /\ ~LooksDecimal(text)
    /\ label = "hex"

\* C8: a text of decimal digits, with or without backslashes, is classified
\* Decimal, whatever its length.
C8_DigitsAreDecimal ==
    (/\ op = "detect"
     /\ AllIn(text, Digits \cup {Backslash})
     /\ \E i \in 1..Len(text) : text[i] \in Digits) => label = "decimal"

\* "4444": all digits, of a length divisible by 4, hence also of the Hex and
\* the Base64 shape.
C8_Witness ==
    /\ op = "detect"
    /\ text = <<52, 52, 52, 52>>
    /\ LooksHex(text) /\ LooksBase64(text)
    /\ label = "decimal"

\* C9: performDecryption is called only with a non-empty text, a recognized
\* mode and a shift that is not NaN, on both entry points.
C9_ValidationPrecedesEngine ==
    call.made =>
        /\ call.text # <<>>
        /\ call.type \in Modes
        /\ call.caesarShift.kind # "nan"

\* C10: the history query with limit N >= 0 answers the min(N, total) most
\* recently created records, the newest first.
C10_NewestFirst ==
    [][\A n \in 1..MaxRequests :
          LET r == inflight'[n].response
          IN  (/\ inflight[n].pc # "handled"
               /\ inflight'[n].pc = "handled"
               /\ inflight'[n].route = "sessions"
               /\ r.limit.kind = "num" /\ r.limit.val >= 0) =>
                  r.sessions = SubSeq(Reverse(sessions'), 1,
                                      Min(r.limit.val, Len(sessions')))]_vars

\* A '%' of the text that two hexadecimal digits do not follow.
MalformedPercent(t) ==
    \E i \in 1..Len(t) :
        t[i] = Percent /\ ~(i + 2 <= Len(t) /\ t[i + 1] \in HexDigits
                            /\ t[i + 2] \in HexDigits)

RECURSIVE PercentBytes(_)
\* The bytes a text without malformed escapes stands for: the value of each
\* %XX, and each other character itself (the inputs' characters are ASCII).
PercentBytes(t) ==
    IF t = <<>> THEN <<>>
    ELSE IF Head(t) = Percent
    THEN <<DigitValue(t[2]) * 16 + DigitValue(t[3])>> \o PercentBytes(SubSeq(t, 4, Len(t)))
    ELSE <<Head(t)>> \o PercentBytes(Tail(t))

\* The text is no percent-encoding of UTF-8 text.
BadPercentEncoding(t) == MalformedPercent(t) \/ ~Utf8Valid(PercentBytes(t))

\* Every letter moved back by 13 places, the other characters kept.
Rot13Of(t) ==
    [i \in 1..Len(t) |-> IF t[i] \in Letters THEN ShiftedBack(t[i], 13) ELSE t[i]]

\* C14: decoding as Url fails on a malformed percent sequence and on bytes
\* that are not UTF-8; otherwise it gives the percent-decoded text, in which
\* a literal '+' stays '+'.
C14_UrlRejectsMalformed ==
    (op = "decode" /\ label = "url") =>
        /\ BadPercentEncoding(text) => ~out.ok
        /\ ~BadPercentEncoding(text) =>
              (out.ok /\ out.decoded = Utf8ToString(PercentBytes(text)))
        /\ (\A i \in 1..Len(text) : text[i] # Percent) =>
              (out.ok /\ out.decoded = text)

\* "+%4": a literal '+' and a '%' that one hex digit follows.
C14_Witness ==
    /\ op = "decode" /\ label = "url"
    /\ text = <<43, Percent, 52>>
    /\ ~out.ok

\* C15: for a resolved kind other than Caesar the outcome is the same
\* whatever the shift, and Rot13 moves every letter by 13.
C15_ShiftOnlyForCaesar ==
    op = "again" =>
        /\ out.detectedType # "caesar" => out2 = out
        /\ out.detectedType = "rot13" =>
              (out2.ok /\ out2.decoded = Rot13Of(text))

\* ROT13 of a text with a letter, asked with the shift 30.
C15_Witness ==
    /\ op = "again" /\ label = "rot13" /\ shift = Num(30)
    /\ \E i \in 1..Len(text) : text[i] \in Letters
    /\ out2 = out

\* C16: the ROT13 decoder applied twice gives the text back.
C16_Rot13Involution ==
    op = "rot13twice" => (out.ok /\ out.decoded = text)

\* A text with letters of both cases, decoded twice.
C16_Witness ==
    /\ op = "rot13twice"
    /\ \E i, j \in 1..Len(text) : text[i] \in UpperLetters /\ text[j] \in LowerLetters
    /\ out.decoded = text

\* C19: in mode auto the decoder of the classified kind accepts every
\* non-empty text, so the decode never fails.
C19_AutoNeverFails ==
    (op = "decode" /\ label = "auto" /\ text # <<>>) => out.ok

DecryptRoutes == {"decrypt", "decrypt-file"}

\* The last response sent is a decrypt response that says success: true.
DecryptSucceeded == resp.success /\ resp.route \in DecryptRoutes

\* The records of the store with the id.
RecordsOf(store, id) == {i \in 1..Len(store) : store[i].id = id}

\* The decrypt requests whose handler has saved its record and waits to
\* send its response.
PendingSaved ==
    {n \in 1..MaxRequests :
        inflight[n].pc = "handled" /\ inflight[n].route \in DecryptRoutes}

\* C11: a decrypt handler whose decode succeeded adds exactly one record to
\* the store, the one its response names, and keeps the others; every other
\* step, a failed request included, leaves the store as it was.  There are
\* as many records as successful responses sent or about to be sent.
C11_SavedOnSuccessOnly ==
    [][LET saved == {n \in 1..MaxRequests :
                        /\ inflight[n].pc # "handled"
                        /\ inflight'[n].pc = "handled"
                        /\ inflight'[n].route \in DecryptRoutes}
       IN  /\ IF saved # {}
              THEN /\ Len(sessions') = Len(sessions) + 1
                   /\ SubSeq(sessions', 1, Len(sessions)) = sessions
                   /\ \A n \in saved :
                         /\ inflight'[n].response.success
                         /\ sessions'[Len(sessions')].id =
                               inflight'[n].response.sessionId
                         /\ sessions'[Len(sessions')].decodedText =
                               inflight'[n].response.decoded
              ELSE sessions' = sessions
           /\ Len(sessions') = succeeded' + Cardinality(PendingSaved')]_vars

\* A failed decrypt-file request after a successful and answered one: one
\* record.
C11_Witness ==
    /\ succeeded = 1 /\ Len(sessions) = 1
    /\ PendingSaved = {}
    /\ resp.route = "decrypt-file" /\ ~resp.success /\ resp.error = "decode"

\* C12: with requests served at once, the records have distinct ids, each
\* request whose handler succeeded has exactly one record, whose fields are
\* all that request's, and there are as many records as successful requests.
C12_ConcurrentRequestsKeepHistory ==
    /\ \A i, j \in 1..Len(sessions) : i # j => sessions[i].id # sessions[j].id
    /\ Len(sessions) = succeeded + Cardinality(PendingSaved)
    /\ \A n \in PendingSaved :
          LET req == inflight[n]
              ids == RecordsOf(sessions, req.response.sessionId)
          IN  /\ Cardinality(ids) = 1
              /\ \A i \in ids :
                    /\ sessions[i].originalText = req.text
                    /\ sessions[i].decodedText = req.response.decoded
                    /\ sessions[i].encryptionType = req.response.detectedType
                    /\ sessions[i].originalLength = Len(req.text)
                    /\ sessions[i].decodedLength = Len(req.response.decoded)
    /\ \A n, m \in PendingSaved :
          n # m => inflight[n].response.sessionId # inflight[m].response.sessionId

\* Two requests with different texts, both saved and both still waiting to
\* send their response.
C12_Witness ==
    /\ inflight[1].pc = "handled" /\ inflight[2].pc = "handled"
    /\ inflight[1].response.success /\ inflight[2].response.success
    /\ inflight[1].text # inflight[2].text
    /\ Len(sessions) = 2

\* C13: the kind a successful response reports, and the kind of every
\* record, is one of the six kinds and never "auto": with mode auto the
\* classifier's label, with an explicit mode that mode.
C13_ResolvedKind ==
    /\ \A i \in 1..Len(sessions) : sessions[i].encryptionType \in EncryptionTypes
    /\ DecryptSucceeded => resp.detectedType \in EncryptionTypes
    /\ \A n \in PendingSaved :
          LET made == inflight[n].call
              r == inflight[n].response
          IN  /\ r.detectedType \in EncryptionTypes
              /\ made.type = "auto" => r.detectedType = detectEncryptionType(made.text)
              /\ made.type # "auto" => r.detectedType = made.type
              /\ \A i \in RecordsOf(sessions, r.sessionId) :
                    sessions[i].encryptionType = r.detectedType

\* "%41" sent with mode auto is saved, and about to be answered, as url.
C13_Witness ==
    \E n \in PendingSaved :
        /\ inflight[n].call.type = "auto"
        /\ inflight[n].response.detectedType = "url"
        /\ \E i \in RecordsOf(sessions, inflight[n].response.sessionId) :
              sessions[i].encryptionType = "url"

\* C17: a successful response's originalLength is the length of the input
\* text and its decodedLength the length of the decoded text, both counted
\* in UTF-16 code units, and the saved record has the same two lengths.
C17_LengthAccounting ==
    /\ DecryptSucceeded => resp.decodedLength = Len(resp.decoded)
    /\ \A n \in PendingSaved :
          LET r == inflight[n].response
          IN  /\ r.originalLength = Len(inflight[n].text)
              /\ r.decodedLength = Len(r.decoded)
              /\ RecordsOf(sessions, r.sessionId) # {}
              /\ \A i \in RecordsOf(sessions, r.sessionId) :
                    /\ sessions[i].originalLength = r.originalLength
                    /\ sessions[i].decodedLength = r.decodedLength
                    /\ sessions[i].originalLength = Len(sessions[i].originalText)
                    /\ sessions[i].decodedLength = Len(sessions[i].decodedText)

\* "%41" decodes to "A": three characters in, one out.
C17_Witness ==
    \E n \in PendingSaved :
        /\ inflight[n].response.originalLength = 3
        /\ inflight[n].response.decodedLength = 1
        /\ \E i \in RecordsOf(sessions, inflight[n].response.sessionId) :
              sessions[i].originalLength = 3 /\ sessions[i].decodedLength = 1

\* The text with every letter moved back by sh places.
CaesarOf(t, sh) ==
    [i \in 1..Len(t) |-> IF t[i] \in Letters THEN ShiftedBack(t[i], sh) ELSE t[i]]

\* C18: a Caesar decode asked through decryptText or decryptFile moves the
\* letters by the shift the caller gave, zero included, and by 3 only if
\* the caller gave none; with shift 0 the text comes back unchanged.
C18_SuppliedShiftApplied ==
    \A n \in 1..MaxRequests :
        LET req == inflight[n]
        IN  (/\ req.client
             /\ req.pc \in {"handled", "responded"}
             /\ req.route \in DecryptRoutes
             /\ req.response.success
             /\ req.response.detectedType = "caesar") =>
                req.response.decoded =
                    CaesarOf(req.text, IF req.asked.kind = "undef"
                                       THEN DefaultShift ELSE req.asked.val)

\* The clear button has emptied the cache, and the store still begins with
\* the records it had when the button was pressed.
ClearLeavesStore ==
    /\ phase = "cleared" => cache = <<>>
    /\ phase # "shown" =>
          /\ Len(storeAtClear) <= Len(sessions)
          /\ SubSeq(sessions, 1, Len(storeAtClear)) = storeAtClear

\* The record is among those the page shows.
Displayed(record) == \E j \in 1..Len(cache) : cache[j] = record

LettersOnly(t) == t # <<>> /\ AllIn(t, Letters)

\* The classifier never answers rot13, alone or inside a decode with mode
\* auto, so a rot13 outcome comes from a request that named rot13.
Rot13OnlyOnRequest ==
    /\ op = "detect" => label \in {"decimal", "hex", "base64", "url", "caesar"}
    /\ (op \in {"decode", "again"} /\ label = "auto") =>
          out.detectedType \in {"decimal", "hex", "base64", "url", "caesar"}
    /\ (op \in {"decode", "again"} /\ out.detectedType = "rot13") => label = "rot13"
    /\ (op = "again" /\ out2.detectedType = "rot13") => label = "rot13"

\* A decode with mode auto that resolved to caesar moved the letters by 3
\* without a shift, and with a shift did what the Caesar decoder does with it.
AutoCaesarUsesShift ==
    /\ (op \in {"decode", "again"} /\ label = "auto" /\ out.detectedType = "caesar") =>
          (out.ok /\ out.decoded = CaesarOf(text, DefaultShift))
    /\ (op = "again" /\ label = "auto" /\ out.detectedType = "caesar") =>
          /\ out2.ok /\ out2.detectedType = "caesar"
          /\ out2.decoded = decryptCaesar(text, shift).decoded

\* C21: the classifier never answers rot13, a rot13 outcome comes only from
\* a request that named rot13, and a text of letters only is decoded under
\* auto as Caesar with the request's shift, 3 by default.
C21_LettersAreCaesar ==
    /\ Rot13OnlyOnRequest
    /\ AutoCaesarUsesShift
    /\ (op \in {"decode", "again"} /\ label = "auto" /\ LettersOnly(text)) =>
          out.detectedType = "caesar"

\* C21 as amended: the classifier never answers rot13 and a rot13 outcome
\* comes only from a request that named rot13; a text of letters only is
\* resolved under auto to hex if its letters are all among a-f and A-F and
\* its length is even, else to base64 if its length is a multiple of 4, and
\* only else to caesar, decoded with the request's shift, 3 by default.
C21_LettersAreCaesarUnlessMatched ==
    /\ Rot13OnlyOnRequest
    /\ AutoCaesarUsesShift
    /\ (op \in {"decode", "again"} /\ label = "auto" /\ LettersOnly(text)) =>
          out.detectedType =
             IF AllIn(text, HexDigits) /\ Len(text) % 2 = 0 THEN "hex"
             ELSE IF Len(text) % 4 = 0 THEN "base64"
             ELSE "caesar"

\* "waw" under auto with the shift 13: caesar, "txt" by default and "jnj"
\* with the shift.
C21_Witness ==
    /\ op = "again" /\ label = "auto" /\ shift = Num(13)
    /\ text = <<119, 97, 119>>
    /\ out.detectedType = "caesar" /\ out.decoded = <<116, 120, 116>>
    /\ out2.decoded = <<106, 110, 106>>

====
